---- MODULE Spec2Model ----
(***************************************************************************)
(* Model of the Azure OpenAI / MCP chat client                             *)
(* (src/5-azure-openai-integration/client-simple.py): connect_to_server,   *)
(* get_mcp_tools, process_query, cleanup and the interactive loop of main. *)
(* Every await of the program is one step of the model; the two external   *)
(* collaborators (the MCP session and the completion API) answer           *)
(* nondeterministically, either with a value or by raising.                *)
(***************************************************************************)
EXTENDS Integers, Sequences, FiniteSets, TLC

\* ------------------------------------------------------------------------
\* Bounds of the model
\* ------------------------------------------------------------------------
\* a new cycle starts only while the stored transcript is shorter than this
MaxHist == 21
\* largest number of tool-invocation requests in one assistant message
MaxCalls == 20

\* ------------------------------------------------------------------------
\* Program constants
\* ------------------------------------------------------------------------
\* chat_history[-20:] and followup_messages[-20:]
Window == 20

VARIABLES
    pc,                \* position of main / process_query
    exit_stack,        \* contexts entered on the AsyncExitStack, in order
    acquired,          \* every context ever entered, in order
    released,          \* every context exit ever run, in order
    session,           \* global session: TRUE once ClientSession is entered
    chat_history,      \* global chat_history
    raw,               \* the line returned by the last input()
    query,             \* raw.strip()
    tools,             \* process_query local: result of get_mcp_tools()
    messages,          \* process_query local: chat_history[-20:]
    assistant_message, \* process_query local: first response message
    tool_messages,     \* process_query local
    idx,               \* position of the for loop over tool_calls
    requests,          \* completion requests issued for the current input
    log,               \* network calls and prints for the current input
    cycles,            \* process_query calls made for the current input
    error              \* exception in flight ("none" when there is none)

vars == <<pc, exit_stack, acquired, released, session, chat_history, raw,
          query, tools, messages, assistant_message, tool_messages, idx,
          requests, log, cycles, error>>

\* ------------------------------------------------------------------------
\* Text: a str is a sequence of one-character strings
\* ------------------------------------------------------------------------
Whitespace == {" ", "\t", "\n"}

UpperToLower == [c \in {"E", "X", "I", "T", "Q", "U", "H"} |->
                   CASE c = "E" -> "e" [] c = "X" -> "x" [] c = "I" -> "i"
                     [] c = "T" -> "t" [] c = "Q" -> "q" [] c = "U" -> "u"
                     [] c = "H" -> "h"]

\* str.lower()
Lower(s) == [i \in 1..Len(s) |->
               IF s[i] \in DOMAIN UpperToLower THEN UpperToLower[s[i]] ELSE s[i]]

RECURSIVE LStrip(_)
LStrip(s) == IF s = <<>> THEN s
             ELSE IF Head(s) \in Whitespace THEN LStrip(Tail(s)) ELSE s

RECURSIVE RStrip(_)
RStrip(s) == IF s = <<>> THEN s
             ELSE IF s[Len(s)] \in Whitespace
                  THEN RStrip(SubSeq(s, 1, Len(s) - 1)) ELSE s

\* the mutant of Strip: the line is used as typed
StripNothing(s) == s

\* str.strip()
Strip(s) == RStrip(LStrip(s))

\* the mutant of IsSentinel: the comparison is case-sensitive
IsSentinelCaseSensitive(q) == q \in {<<"e", "x", "i", "t">>, <<"q", "u", "i", "t">>}

\* query.lower() in {"exit", "quit"}
IsSentinel(q) == Lower(q) \in {<<"e", "x", "i", "t">>, <<"q", "u", "i", "t">>}

\* the mutant of IsEmpty: a short query counts as no query
IsEmptyShort(q) == Len(q) <= 2

\* not query
IsEmpty(q) == q = <<>>

\* the lines input() may return
Lines == { <<>>,
           <<" ">>,
           <<" ", "\t">>,
           <<"e", "x", "i", "t">>,
           <<"Q", "U", "I", "T">>,
           <<" ", "E", "x", "i", "t", "\n">>,
           <<" ", "H", "i", " ">> }

\* what raw holds when input() returned no line at all
EndOfInput == <<"EOF">>

\* ------------------------------------------------------------------------
\* Messages
\* ------------------------------------------------------------------------
\* content None of a response message
Null == <<"None">>
NoId == 0

SystemText == <<"s", "y", "s">>
AnswerText == <<"a">>
FinalText  == <<"f">>
ResultText == <<"r">>

Msg(role, content, id, calls) ==
    [role |-> role, content |-> content, tool_call_id |-> id, tool_calls |-> calls]

system_message == Msg("system", SystemText, NoId, <<>>)

\* content or ""
OrEmpty(c) == IF c = Null THEN <<>> ELSE c

\* the mutant of LastN: no truncation
LastNAll(s, n) == s

\* s[-n:]
LastN(s, n) == IF Len(s) <= n THEN s ELSE SubSeq(s, Len(s) - n + 1, Len(s))

\* the tool_calls of a response: n requests, each with its own identifier
ToolCalls(n) == [i \in 1..n |-> [id |-> i, name |-> "add"]]

\* response.choices[0].message of the first completion request
FirstResponse(n) ==
    Msg("assistant", IF n = 0 THEN AnswerText ELSE Null, NoId, ToolCalls(n))

\* the mutant of CallAt: the requests are served last to first
CallAtReversed(calls, i) == calls[Len(calls) + 1 - i]

\* for tool_call in assistant_message.tool_calls: the i-th pass
CallAt(calls, i) == calls[i]

\* the mutant of ToolMessage: the result does not name its request
ToolMessageNoId(tool_call) == Msg("tool", ResultText, NoId, <<>>)

\* {"role": "tool", "tool_call_id": tool_call.id, "content": result.content}
ToolMessage(tool_call) == Msg("tool", ResultText, tool_call.id, <<>>)

\* the mutant of HistoryAppend: the stored transcript is cut to the window
HistoryAppendWindowed(h, m) == LastN(Append(h, m), Window)

\* chat_history.append(m)
HistoryAppend(h, m) == Append(h, m)

\* the mutant of StoredAssistant: the response message is stored as received
StoredAssistantRaw(m) == m

\* {"role": "assistant", "content": assistant_message.content or ""}
StoredAssistant(m) == Msg("assistant", OrEmpty(m.content), NoId, <<>>)

Ev(e, a) == [ev |-> e, arg |-> a]

\* locals of process_query are gone once its frame is left
NoMessage == Msg("none", Null, NoId, <<>>)

ResetLocals ==
    /\ tools' = <<>>
    /\ messages' = <<>>
    /\ assistant_message' = NoMessage
    /\ tool_messages' = <<>>
    /\ idx' = 0

\* the mutant of RaiseInLoop: the loop reports the error and prompts again
RaiseInLoopIsolated(e) ==
    /\ error' = e
    /\ pc' = "prompt"

\* an exception leaves process_query and reaches the finally clause of main
RaiseInLoop(e) ==
    /\ error' = e
    /\ pc' = "cleanup"

\* ------------------------------------------------------------------------
\* Initial state: module level, before asyncio.run(main())
\* ------------------------------------------------------------------------
Init ==
    /\ pc = "connect_transport"
    /\ exit_stack = <<>>
    /\ acquired = <<>>
    /\ released = <<>>
    /\ session = FALSE
    /\ chat_history = <<>>
    /\ raw = <<>>
    /\ query = <<>>
    /\ tools = <<>>
    /\ messages = <<>>
    /\ assistant_message = NoMessage
    /\ tool_messages = <<>>
    /\ idx = 0
    /\ requests = <<>>
    /\ log = <<>>
    /\ cycles = 0
    /\ error = "none"

\* ------------------------------------------------------------------------
\* connect_to_server (called by main before its try block)
\* ------------------------------------------------------------------------
\* exit_stack.enter_async_context(stdio_client(server_params))
ConnectTransport ==
    /\ pc = "connect_transport"
    /\ \/ /\ exit_stack' = Append(exit_stack, "stdio")
          /\ acquired' = Append(acquired, "stdio")
          /\ pc' = "connect_session"
          /\ UNCHANGED error
       \/ /\ error' = "connect"
          /\ pc' = "raised"
          /\ UNCHANGED <<exit_stack, acquired>>
    /\ UNCHANGED <<released, session, chat_history, raw, query, tools, messages,
                   assistant_message, tool_messages, idx, requests, log, cycles>>

\* exit_stack.enter_async_context(ClientSession(stdio, write))
ConnectSession ==
    /\ pc = "connect_session"
    /\ \/ /\ exit_stack' = Append(exit_stack, "session")
          /\ acquired' = Append(acquired, "session")
          /\ session' = TRUE
          /\ pc' = "initialize"
          /\ UNCHANGED error
       \/ /\ error' = "connect"
          /\ pc' = "raised"
          /\ UNCHANGED <<exit_stack, acquired, session>>
    /\ UNCHANGED <<released, chat_history, raw, query, tools, messages,
                   assistant_message, tool_messages, idx, requests, log, cycles>>

\* session.initialize()
Initialize ==
    /\ pc = "initialize"
    /\ \/ /\ pc' = "connect_list_tools"
          /\ UNCHANGED error
       \/ /\ error' = "initialize"
          /\ pc' = "raised"
    /\ UNCHANGED <<exit_stack, acquired, released, session, chat_history, raw,
                   query, tools, messages, assistant_message, tool_messages,
                   idx, requests, log, cycles>>

\* session.list_tools() and the printed catalog; on return main seeds
\* chat_history with the system message and enters its try block
ConnectListTools ==
    /\ pc = "connect_list_tools"
    /\ \/ /\ chat_history' = <<system_message>>
          /\ pc' = "prompt"
          /\ UNCHANGED error
       \/ /\ error' = "list_tools"
          /\ pc' = "raised"
          /\ UNCHANGED chat_history
    /\ UNCHANGED <<exit_stack, acquired, released, session, raw, query, tools,
                   messages, assistant_message, tool_messages, idx, requests,
                   log, cycles>>

\* ------------------------------------------------------------------------
\* main: one pass of the while loop up to the call of process_query
\* ------------------------------------------------------------------------
ReadLine ==
    /\ pc = "prompt"
    /\ \E line \in Lines :
         LET q == Strip(line) IN
         /\ raw' = line
         /\ query' = q
         /\ requests' = <<>>
         /\ IF IsSentinel(q)
            THEN /\ log' = <<Ev("print_goodbye", 0)>>
                 /\ pc' = "cleanup"
                 /\ cycles' = 0
                 /\ UNCHANGED chat_history
            ELSE IF IsEmpty(q)
            THEN /\ log' = <<>>
                 /\ pc' = "prompt"
                 /\ cycles' = 0
                 /\ UNCHANGED chat_history
            ELSE /\ Len(chat_history) < MaxHist
                 /\ log' = <<>>
                 /\ cycles' = 1
                 /\ chat_history' = HistoryAppend(chat_history, Msg("user", q, NoId, <<>>))
                 /\ pc' = "get_tools"
    /\ UNCHANGED <<exit_stack, acquired, released, session, tools, messages,
                   assistant_message, tool_messages, idx, error>>

\* input() raises EOFError
ReadEOF ==
    /\ pc = "prompt"
    /\ raw' = EndOfInput
    /\ query' = <<>>
    /\ requests' = <<>>
    /\ log' = <<>>
    /\ cycles' = 0
    /\ RaiseInLoop("EOFError")
    /\ UNCHANGED <<exit_stack, acquired, released, session, chat_history, tools,
                   messages, assistant_message, tool_messages, idx>>

\* ------------------------------------------------------------------------
\* process_query
\* ------------------------------------------------------------------------
\* tools = await get_mcp_tools(); messages = chat_history[-20:]
GetTools ==
    /\ pc = "get_tools"
    /\ log' = Append(log, Ev("list_tools", 0))
    /\ \/ /\ tools' = <<"add">>
          /\ messages' = LastN(chat_history, Window)
          /\ pc' = "first_completion"
          /\ UNCHANGED error
       \/ /\ RaiseInLoop("list_tools")
          /\ UNCHANGED <<tools, messages>>
    /\ UNCHANGED <<exit_stack, acquired, released, session, chat_history, raw,
                   query, assistant_message, tool_messages, idx, requests, cycles>>

\* the first completion request (tool_choice="auto"), the append of the
\* response and, when it carries no tool calls, the return to main and the
\* printed answer
FirstCompletion ==
    /\ pc = "first_completion"
    /\ requests' = Append(requests, [mode |-> "auto", messages |-> messages,
                                     tools |-> tools])
    /\ \/ \E n \in 0..MaxCalls :
            LET m == FirstResponse(n) IN
            /\ chat_history' = HistoryAppend(chat_history, StoredAssistant(m))
            /\ IF m.tool_calls = <<>>
               THEN /\ log' = log \o <<Ev("completion_auto", n),
                                       Ev("print_assistant", 0),
                                       Ev("print_answer", 0)>>
                    /\ ResetLocals
                    /\ pc' = "prompt"
               ELSE /\ log' = log \o <<Ev("completion_auto", n),
                                       Ev("print_assistant", 0)>>
                    /\ assistant_message' = m
                    /\ tool_messages' = <<>>
                    /\ idx' = 1
                    /\ pc' = "tool_call"
                    /\ UNCHANGED <<tools, messages>>
            /\ UNCHANGED error
       \/ /\ log' = Append(log, Ev("completion_auto", 0))
          /\ RaiseInLoop("completion")
          /\ ResetLocals
          /\ UNCHANGED chat_history
    /\ UNCHANGED <<exit_stack, acquired, released, session, raw, query, cycles>>

\* the for loop moves on to the next request, or leaves the loop
LoopAdvance ==
    /\ idx' = idx + 1
    /\ pc' = IF idx = Len(assistant_message.tool_calls)
             THEN "second_completion" ELSE "tool_call"

\* the mutant of ToolFailure: the failure is caught and the loop goes on
ToolFailureCaught(e, events) ==
    /\ log' = log \o events
    /\ LoopAdvance
    /\ UNCHANGED <<tools, messages, assistant_message, tool_messages, error>>

\* json.loads or session.call_tool raises inside the for loop: nothing
\* catches it there, the exception leaves process_query
ToolFailure(e, events) ==
    /\ log' = log \o events
    /\ RaiseInLoop(e)
    /\ ResetLocals

\* one pass of the for loop: json.loads, session.call_tool, the append
ToolCall ==
    /\ pc = "tool_call"
    /\ LET tool_call == CallAt(assistant_message.tool_calls, idx) IN
       \/ \* json.loads raises: no call is issued
          ToolFailure("json", <<Ev("tool_failed", tool_call.id)>>)
       \/ \* session.call_tool raises
          ToolFailure("call_tool", <<Ev("call_tool", tool_call.id),
                                     Ev("tool_failed", tool_call.id)>>)
       \/ /\ log' = log \o <<Ev("call_tool", tool_call.id),
                             Ev("print_tool_result", tool_call.id)>>
          /\ tool_messages' = Append(tool_messages, ToolMessage(tool_call))
          /\ LoopAdvance
          /\ UNCHANGED <<tools, messages, assistant_message, error>>
    /\ UNCHANGED <<exit_stack, acquired, released, session, chat_history, raw,
                   query, requests, cycles>>

\* followup_messages, the second completion request (tool_choice="none"),
\* the append of its content, the return to main and the printed answer
SecondCompletion ==
    /\ pc = "second_completion"
    /\ LET followup_messages == messages \o <<assistant_message>> \o tool_messages IN
       /\ requests' = Append(requests,
                             [mode |-> "none",
                              messages |-> LastN(followup_messages, Window),
                              tools |-> tools])
       /\ \/ /\ log' = log \o <<Ev("print_tool_messages", 0),
                                Ev("completion_none", 0),
                                Ev("print_answer", 0)>>
             /\ chat_history' = HistoryAppend(chat_history,
                                              Msg("assistant", OrEmpty(FinalText), NoId, <<>>))
             /\ pc' = "prompt"
             /\ UNCHANGED error
          \/ /\ log' = log \o <<Ev("print_tool_messages", 0),
                                Ev("completion_none", 0)>>
             /\ RaiseInLoop("completion")
             /\ UNCHANGED chat_history
    /\ ResetLocals
    /\ UNCHANGED <<exit_stack, acquired, released, session, raw, query, cycles>>

\* ------------------------------------------------------------------------
\* cleanup, from the finally clause of main
\* ------------------------------------------------------------------------
RECURSIVE Reverse(_)
Reverse(s) == IF s = <<>> THEN <<>> ELSE Append(Reverse(Tail(s)), Head(s))

\* exit_stack.aclose(): the entered contexts are exited, last entered first
Cleanup ==
    /\ pc = "cleanup"
    /\ released' = released \o Reverse(exit_stack)
    /\ exit_stack' = <<>>
    /\ pc' = IF error = "none" THEN "exited" ELSE "raised"
    /\ UNCHANGED <<acquired, session, chat_history, raw, query, tools, messages,
                   assistant_message, tool_messages, idx, requests, log, cycles,
                   error>>

Next ==
    \/ ConnectTransport
    \/ ConnectSession
    \/ Initialize
    \/ ConnectListTools
    \/ ReadLine
    \/ ReadEOF
    \/ GetTools
    \/ FirstCompletion
    \/ ToolCall
    \/ SecondCompletion
    \/ Cleanup

Spec == Init /\ [][Next]_vars

\* ------------------------------------------------------------------------
\* Vocabulary of the properties
\* ------------------------------------------------------------------------
\* the lines of Lines by what the user typed, written out one by one
BlankLines == { <<>>, <<" ">>, <<" ", "\t">> }

SentinelLines == { <<"e", "x", "i", "t">>,
                   <<"Q", "U", "I", "T">>,
                   <<" ", "E", "x", "i", "t", "\n">> }

QueryLines == { <<" ", "H", "i", " ">> }

Terminated == pc \in {"exited", "raised"}

InCycle == pc \in {"get_tools", "first_completion", "tool_call", "second_completion"}

Count(e) == Cardinality({i \in DOMAIN log : log[i].ev = e})

NetworkEvents == {"list_tools", "completion_auto", "call_tool", "completion_none"}

IsPrefix(s, t) == Len(s) <= Len(t) /\ SubSeq(t, 1, Len(s)) = s

\* ------------------------------------------------------------------------
\* C1: every message sequence handed to the completion collaborator, by the
\* first request (tool mode auto) and by the second (tool mode none), has
\* at most Window = 20 messages, whatever the length of chat_history and
\* the number of tool results.
\* ------------------------------------------------------------------------
C1_WindowBound ==
    \A k \in DOMAIN requests : Len(requests[k].messages) <= Window

\* both requests of a cycle were cut: the transcript is longer than the
\* window and the tool results push the follow-up list past it as well
C1_Witness ==
    /\ Len(requests) = 2
    /\ requests[1].mode = "auto" /\ requests[2].mode = "none"
    /\ Len(chat_history) > Window + 1
    /\ Len(requests[1].messages) = Window
    /\ Len(requests[2].messages) = Window
    /\ Count("print_tool_result") >= 2

\* ------------------------------------------------------------------------
\* C2: in the message sequence of the second completion request every
\* tool-result message carries a call identifier of the assistant message
\* that immediately precedes the run of tool results in that sequence.
\* ------------------------------------------------------------------------
PrecedingAssistant(ms, i) ==
    {j \in 1..(i - 1) :
        /\ ms[j].role = "assistant"
        /\ \A k \in (j + 1)..i : ms[k].role = "tool"}

C2_RoundTrip ==
    \A r \in DOMAIN requests :
        requests[r].mode = "none" =>
            LET ms == requests[r].messages IN
            \A i \in DOMAIN ms :
                ms[i].role = "tool" =>
                    \E j \in PrecedingAssistant(ms, i) :
                        \E c \in DOMAIN ms[j].tool_calls :
                            ms[j].tool_calls[c].id = ms[i].tool_call_id

\* ------------------------------------------------------------------------
\* C3: within one cycle each tool-invocation request yields exactly one
\* result: the i-th result carries the identifier of the i-th request, no
\* request is invoked twice, and when the loop is left there are as many
\* results as requests.
\* ------------------------------------------------------------------------
C3_OneResultPerRequest ==
    pc \in {"tool_call", "second_completion"} =>
        LET calls == assistant_message.tool_calls IN
        /\ Len(tool_messages) = idx - 1
        /\ Len(tool_messages) <= Len(calls)
        /\ \A i \in DOMAIN tool_messages :
              /\ tool_messages[i].role = "tool"
              /\ tool_messages[i].tool_call_id = calls[i].id
        /\ \A c \in DOMAIN calls :
              Cardinality({i \in DOMAIN log :
                             log[i] = Ev("call_tool", calls[c].id)})
                 = (IF c < idx THEN 1 ELSE 0)
        /\ pc = "second_completion" => Len(tool_messages) = Len(calls)

C3_Witness ==
    /\ pc = "second_completion"
    /\ Len(assistant_message.tool_calls) = 3
    /\ Len(tool_messages) = 3

\* ------------------------------------------------------------------------
\* C4 as stated: for every input line that is non-empty after trimming and
\* is not the exit sentinel, exactly one cycle runs and exactly one answer
\* line is printed.
\* ------------------------------------------------------------------------
C4_Original ==
    (raw \in QueryLines /\ (pc = "prompt" \/ Terminated)) =>
        /\ cycles = 1
        /\ Count("print_answer") = 1

\* ------------------------------------------------------------------------
\* C4 as amended: for every such input line exactly one cycle runs; main
\* prints exactly one answer line when that cycle returns, and none when
\* the cycle raises, in which case the loop is left with the error.
\* ------------------------------------------------------------------------
C4_OneCyclePerQuery ==
    raw \in QueryLines =>
        /\ cycles = 1
        /\ pc \in {"get_tools", "first_completion", "tool_call",
                   "second_completion", "prompt", "cleanup", "raised"}
        /\ InCycle => (Count("print_answer") = 0 /\ error = "none")
        /\ pc = "prompt" => (Count("print_answer") = 1 /\ error = "none")
        /\ pc \in {"cleanup", "raised"} =>
              (Count("print_answer") = 0 /\ error # "none")

C4_Witness ==
    /\ raw \in QueryLines
    /\ pc = "prompt"
    /\ cycles = 1
    /\ Count("print_answer") = 1
    /\ Count("completion_none") = 1

\* ------------------------------------------------------------------------
\* C5: an empty or whitespace-only input line runs no cycle, issues no
\* network call, leaves the stored transcript unchanged and returns to the
\* prompt.
\* ------------------------------------------------------------------------
C5_BlankLineIgnored ==
    [][(pc = "prompt" /\ raw' \in BlankLines) =>
          /\ pc' = "prompt"
          /\ cycles' = 0
          /\ log' = <<>>
          /\ requests' = <<>>
          /\ UNCHANGED <<chat_history, exit_stack, acquired, released, error>>]_vars

C5_Witness ==
    /\ pc = "prompt"
    /\ raw = <<" ", "\t">>
    /\ Len(chat_history) > 3
    /\ cycles = 0
    /\ log = <<>>

\* ------------------------------------------------------------------------
\* C6: on an input line that is exit or quit after trimming, in any letter
\* case, the loop ends, cleanup closes the exit stack before the process
\* ends, no completion request, catalog query or tool invocation is issued
\* for that input, and no further input is read.
\* ------------------------------------------------------------------------
C6_ExitSentinel ==
    raw \in SentinelLines =>
        /\ pc \in {"cleanup", "exited"}
        /\ error = "none"
        /\ cycles = 0
        /\ requests = <<>>
        /\ log = <<Ev("print_goodbye", 0)>>
        /\ pc = "cleanup" => released = <<>>
        /\ pc = "exited" => (exit_stack = <<>> /\ released = <<"session", "stdio">>)

C6_Witness ==
    /\ raw = <<"Q", "U", "I", "T">>
    /\ pc = "exited"
    /\ Len(chat_history) > 1
    /\ exit_stack = <<>>

\* ------------------------------------------------------------------------
\* C7: in a cycle whose first assistant message carries tool-invocation
\* requests, the network calls are, in this order: the catalog query, the
\* first completion request (auto), the tool invocations one at a time in
\* the order of the requests, each finished before the next starts, then
\* exactly one second completion request (none), issued only after every
\* tool result was produced and put into the follow-up list.
\* ------------------------------------------------------------------------
IsCycleEvent(e) == e.ev \in NetworkEvents \cup {"print_tool_result"}

RECURSIVE InvocationEvents(_, _)
InvocationEvents(calls, i) ==
    IF i > Len(calls) THEN <<>>
    ELSE <<Ev("call_tool", calls[i].id), Ev("print_tool_result", calls[i].id)>>
         \o InvocationEvents(calls, i + 1)

ExpectedEvents(n) ==
    <<Ev("list_tools", 0), Ev("completion_auto", n)>>
    \o InvocationEvents(ToolCalls(n), 1)
    \o <<Ev("completion_none", 0)>>

C7_CycleOrder ==
    LET events == SelectSeq(log, IsCycleEvent) IN
    (Len(events) >= 2 /\ events[2].ev = "completion_auto" /\ events[2].arg > 0) =>
        /\ IsPrefix(events, ExpectedEvents(events[2].arg))
        /\ pc = "second_completion" =>
              /\ Len(tool_messages) = events[2].arg
              /\ Count("print_tool_result") = events[2].arg
        /\ Count("completion_none") = 1 =>
              /\ Len(requests) = 2
              /\ requests[1].mode = "auto"
              /\ requests[2].mode = "none"
              /\ Count("print_tool_result") = events[2].arg

C7_Witness ==
    /\ pc = "prompt"
    /\ Count("completion_none") = 1
    /\ Count("call_tool") = 3
    /\ Count("print_tool_result") = 3

\* ------------------------------------------------------------------------
\* C8: when a tool invocation, or the parsing of its argument payload,
\* raises during a cycle, the cycle stops there: the error reaches the
\* caller of process_query, no later request of the same assistant message
\* is invoked and no second completion request is issued.
\* ------------------------------------------------------------------------
C8_ToolErrorAborts ==
    \A i \in DOMAIN log :
        log[i].ev = "tool_failed" =>
            /\ i = Len(log)
            /\ error \in {"json", "call_tool"}
            /\ pc \in {"cleanup", "raised"}
            /\ Count("completion_none") = 0
            /\ Len(requests) = 1
            /\ \A j \in DOMAIN log :
                  log[j].ev = "call_tool" => log[j].arg <= log[i].arg

C8_Witness ==
    /\ pc = "raised"
    /\ error = "call_tool"
    /\ Count("tool_failed") = 1
    /\ Count("print_tool_result") = 1
    /\ \E i \in DOMAIN log : log[i] = Ev("completion_auto", 3)

\* ------------------------------------------------------------------------
\* C9: the session and its transport are acquired once at startup and
\* released exactly once at shutdown on every exit path of main (the exit
\* sentinel, an error raised inside a cycle, a failure during connection or
\* initialization after the transport was acquired): no terminated run
\* leaves an acquired context unreleased or releases one twice.
\* ------------------------------------------------------------------------
C9_ReleasedExactlyOnce ==
    Terminated =>
        \A r \in {"stdio", "session"} :
            /\ Cardinality({i \in DOMAIN acquired : acquired[i] = r}) <= 1
            /\ Cardinality({i \in DOMAIN released : released[i] = r})
                 = Cardinality({i \in DOMAIN acquired : acquired[i] = r})

\* ------------------------------------------------------------------------
\* C10: when the transcript starts with a system message, every message
\* sequence sent to the completion collaborator has that system message as
\* its first element, however long the stored transcript is.
\* ------------------------------------------------------------------------
C10_SystemMessageKept ==
    (chat_history # <<>> /\ chat_history[1].role = "system") =>
        \A k \in DOMAIN requests :
            /\ requests[k].messages # <<>>
            /\ requests[k].messages[1] = chat_history[1]

\* ------------------------------------------------------------------------
\* C11: once seeded with the system message, the stored transcript is
\* append-only: every step of the loop and of process_query keeps the
\* previous chat_history as a prefix of the new one; truncation touches
\* only the sequences sent outward.
\* ------------------------------------------------------------------------
C11_AppendOnly ==
    [][(chat_history # <<>>) =>
          /\ IsPrefix(chat_history, chat_history')
          /\ chat_history'[1] = system_message]_vars

\* the transcript has outgrown the window, the sequence sent was cut, and
\* the stored transcript still starts with the system message
C11_Witness ==
    /\ Len(chat_history) > Window + 1
    /\ chat_history[1] = system_message
    /\ Len(requests) >= 1
    /\ Len(requests[1].messages) = Window
    /\ requests[1].messages[1] # system_message

\* ------------------------------------------------------------------------
\* C12: a failure inside a cycle (catalog query, first completion request,
\* argument parsing, tool invocation, second completion request) is never
\* retried and never downgraded: it ends the whole interactive loop, so
\* after it no input line is read and no cycle, completion request or tool
\* invocation starts.
\* ------------------------------------------------------------------------
CycleErrors == {"list_tools", "completion", "json", "call_tool"}

C12_FailureEndsLoop ==
    [][/\ (InCycle /\ error' # "none") =>
             /\ error = "none"
             /\ error' \in CycleErrors
             /\ pc' = "cleanup"
             /\ cycles' = 1
       /\ (cycles = 1 /\ error # "none") =>
             /\ error \in CycleErrors
             /\ error' = error
             /\ pc = "cleanup" /\ pc' = "raised"
             /\ UNCHANGED <<raw, query, cycles, log, requests, chat_history>>]_vars

\* the second completion request of a cycle failed and main has ended
C12_Witness ==
    /\ pc = "raised"
    /\ error = "completion"
    /\ Count("completion_none") = 1
    /\ Count("print_tool_result") = 2
    /\ Count("print_answer") = 0
    /\ exit_stack = <<>>

\* ------------------------------------------------------------------------
\* C13: the stored transcript never holds a tool-role message nor an
\* assistant message carrying tool-invocation requests. A completed cycle
\* appends exactly two messages (user, assistant) when the first response
\* has no tool requests and exactly three (user, assistant, assistant) when
\* it has; tool results and the tool-call-bearing assistant message exist
\* only in the sequence of the second request, so no window built for a
\* cycle contains a tool result.
\* ------------------------------------------------------------------------
Plain(m, role) == m.role = role /\ m.tool_calls = <<>> /\ m.tool_call_id = NoId

Appended(k) == Len(chat_history') = Len(chat_history) + k

C13_StoredShape ==
    /\ \A i \in DOMAIN chat_history :
          \/ Plain(chat_history[i], "system")
          \/ Plain(chat_history[i], "user")
          \/ Plain(chat_history[i], "assistant")
    /\ \A k \in DOMAIN requests :
          requests[k].mode = "auto" =>
              \A i \in DOMAIN requests[k].messages :
                  /\ requests[k].messages[i].role # "tool"
                  /\ requests[k].messages[i].tool_calls = <<>>
    /\ (pc = "prompt" /\ cycles = 1) =>
          LET n == Len(chat_history) IN
          IF Count("completion_none") = 0
          THEN /\ n >= 3
               /\ Plain(chat_history[n - 1], "user")
               /\ Plain(chat_history[n], "assistant")
          ELSE /\ n >= 4
               /\ Plain(chat_history[n - 2], "user")
               /\ Plain(chat_history[n - 1], "assistant")
               /\ Plain(chat_history[n], "assistant")

C13_StepAppends ==
    /\ (pc = "prompt" /\ pc' = "get_tools") => Appended(1)
    /\ pc = "get_tools" => Appended(0)
    /\ (pc = "first_completion" /\ pc' \in {"prompt", "tool_call"}) => Appended(1)
    /\ pc = "tool_call" => Appended(0)
    /\ (pc = "second_completion" /\ pc' = "prompt") => Appended(1)
    /\ (pc = "first_completion" /\ pc' = "prompt") => Count("completion_none")' = 0
    /\ (pc = "second_completion" /\ pc' = "prompt") =>
          (Count("completion_none")' = 1 /\ Count("completion_auto")' = 1)

C13_NoToolTraceStored == []C13_StoredShape /\ [][C13_StepAppends]_vars

\* a cycle with tool results has completed, its second request carried
\* them, and a later cycle has built its window from the stored transcript
C13_Witness ==
    /\ pc = "first_completion"
    /\ Len(chat_history) = 5
    /\ chat_history[3].role = "assistant" /\ chat_history[3].content = <<>>
    /\ chat_history[4].role = "assistant" /\ chat_history[4].content = FinalText
    /\ chat_history[5].role = "user"
    /\ messages = chat_history

====
